---- MODULE Spec2Model ----
(***************************************************************************)
(* Model of the scanner (compiler_core/src/lexer/lexer.rs) and of the      *)
(* recursive-descent parser (compiler_core/src/parser.rs).                 *)
(*                                                                         *)
(* A character is a one-character string, a text is a sequence of          *)
(* characters.  A scanner is a record with the fields of struct Lexer; the *)
(* Peekable<Chars> iterator is the sequence of characters not yet taken.   *)
(* Every function of the source that takes &mut self is an operator that   *)
(* takes the scanner (or parser) record and returns the new record         *)
(* together with the function's result.                                    *)
(***************************************************************************)
EXTENDS Integers, Sequences, FiniteSets, TLC

VARIABLES input, lexer, results, parser, parse_result,
          second, all_tokens, tokenize_response, parse_response

vars == <<input, lexer, results, parser, parse_result,
          second, all_tokens, tokenize_response, parse_response>>

(***************************************************************************)
(* Bounds of the explored inputs.                                          *)
(***************************************************************************)
MaxLen == 3
MaxBracketLen == 4
MaxDigits == 2
MaxEofCalls == 2

\* longest text between the opening quote of a string literal and the end
MaxStrLen == 5

\* longest chain of binary operators in an expression text
MaxOps == 2

\* most statements in a program text
MaxStmts == 2

\* most arguments in a function call text
MaxArgs == 2

\* most arguments and commas in the argument list of a call text
MaxCommaItems == 4

\* longest run of prefix operators
MaxUnary == 3

(***************************************************************************)
(* Character classes (char::is_ascii_digit, is_alphabetic,                 *)
(* is_alphanumeric, is_whitespace), restricted to ASCII.                   *)
(***************************************************************************)
AsciiDigit == {"0", "1", "2", "3", "4", "5", "6", "7", "8", "9"}

Alphabetic ==
  {"a", "b", "c", "d", "e", "f", "g", "h", "i", "j", "k", "l", "m",
   "n", "o", "p", "q", "r", "s", "t", "u", "v", "w", "x", "y", "z",
   "A", "B", "C", "D", "E", "F", "G", "H", "I", "J", "K", "L", "M",
   "N", "O", "P", "Q", "R", "S", "T", "U", "V", "W", "X", "Y", "Z"}

Alphanumeric == Alphabetic \cup AsciiDigit

Whitespace == {" ", "\t", "\n", "\r"}

Openers == {"(", "[", "{"}

Closers == {")", "]", "}"}

\* Option::None of an Option<char>
None == "None"

(***************************************************************************)
(* Results, tokens and scanner errors.                                     *)
(***************************************************************************)
Ok(v) == [ok |-> TRUE, val |-> v]

Err(e) == [ok |-> FALSE, err |-> e]

EOF == [type |-> "EOF"]

Punctuation(raw, kind, depth) ==
  [type |-> "Punctuation", raw |-> raw, kind |-> kind, depth |-> depth]

Separator(raw) == [type |-> "Punctuation", raw |-> raw, kind |-> "Separator"]

Operator(op) == [type |-> "Operator", op |-> op]

Identificador(name) == [type |-> "Identificador", name |-> name]

Numero(raw, kind) == [type |-> "Numero", text |-> raw, hint |-> kind]

Cadena(value) == [type |-> "Cadena", value |-> value]

Boolean(b) == [type |-> "Boolean", bool |-> b]

InvalidNumeric(raw) == [type |-> "InvalidNumeric", text |-> raw]

MissbalancedSymbols(symbol, open) ==
  [type |-> "MissbalancedSymbols", symbol |-> symbol, open |-> open]

UnknownSymbol(symbol) == [type |-> "UnknownSymbol", what |-> symbol]

UnterminatedEscape ==
  <<"U", "n", "t", "e", "r", "m", "i", "n", "a", "t", "e", "d", " ",
    "e", "s", "c", "a", "p", "e", " ", "s", "e", "q", "u", "e", "n", "c", "e">>

UnterminatedString ==
  <<"U", "n", "t", "e", "r", "m", "i", "n", "a", "t", "e", "d", " ",
    "s", "t", "r", "i", "n", "g", " ", "l", "i", "t", "e", "r", "a", "l">>

\* a local binding: let v = ...; rest
Bind(v, rest(_)) == rest(v)

\* the ? operator: an Err result is returned at once, an Ok result goes on
Try(r, rest(_)) == IF r.res.ok THEN rest(r) ELSE r

(***************************************************************************)
(* Lexer                                                                   *)
(***************************************************************************)
Lexer_new(text) ==
  [cur_line |-> 1,
   cur_col |-> 0,
   position_offset |-> 0,
   chars |-> text,
   balancing_state |-> <<>>]

\* self.chars.peek()
peek(L) == IF L.chars = <<>> THEN None ELSE Head(L.chars)

\* self.chars.next(): takes a character without touching the counters
chars_next(L) ==
  IF L.chars = <<>>
  THEN [L |-> L, c |-> None]
  ELSE [L |-> [L EXCEPT !.chars = Tail(@)], c |-> Head(L.chars)]

\* consume_char bumping the offset before it knows a character is there
consume_char_counts_none(L) ==
  IF L.chars = <<>>
  THEN [L |-> [L EXCEPT !.position_offset = @ + 1], c |-> None]
  ELSE LET c == Head(L.chars)
       IN [L |-> [L EXCEPT !.chars = Tail(@),
                           !.position_offset = @ + 1,
                           !.cur_line = IF c = "\n" THEN @ + 1 ELSE @,
                           !.cur_col = IF c = "\n" THEN 1 ELSE @ + 1],
           c |-> c]

consume_char(L) ==
  IF L.chars = <<>>
  THEN [L |-> L, c |-> None]
  ELSE LET c == Head(L.chars)
       IN [L |-> [L EXCEPT !.chars = Tail(@),
                           !.position_offset = @ + 1,
                           !.cur_line = IF c = "\n" THEN @ + 1 ELSE @,
                           !.cur_col = IF c = "\n" THEN 1 ELSE @ + 1],
           c |-> c]

\* map_balanced_state with the arm of "]" giving the wrong opener
map_balanced_state_wrong_square(c) ==
  CASE c = "(" -> ")"
    [] c = ")" -> "("
    [] c = "{" -> "}"
    [] c = "}" -> "{"
    [] c = "[" -> "]"
    [] c = "]" -> "("

map_balanced_state(c) ==
  CASE c = "(" -> ")"
    [] c = ")" -> "("
    [] c = "{" -> "}"
    [] c = "}" -> "{"
    [] c = "[" -> "]"
    [] c = "]" -> "["

\* balancing_state.get(c): the depth held for c, or None when c has no entry
depth_of(L, c) ==
  IF c \in DOMAIN L.balancing_state THEN L.balancing_state[c] ELSE None

\* push_open returning the depth after the increment
push_open_depth_after(L, c) ==
  LET current == IF c \in DOMAIN L.balancing_state
                 THEN L.balancing_state[c]
                 ELSE 0
  IN [L |-> [L EXCEPT !.balancing_state = (c :> (current + 1)) @@ @],
      depth |-> current + 1]

push_open(L, c) ==
  LET current == IF c \in DOMAIN L.balancing_state
                 THEN L.balancing_state[c]
                 ELSE 0
  IN [L |-> [L EXCEPT !.balancing_state = (c :> (current + 1)) @@ @],
      depth |-> current]

\* pop_close accepting a closer at depth 0 (>= in place of >)
pop_close_at_zero(L, c) ==
  LET open == map_balanced_state(c)
  IN IF open \in DOMAIN L.balancing_state /\ L.balancing_state[open] >= 0
     THEN [L |-> [L EXCEPT !.balancing_state[open] = @ - 1],
           res |-> Ok(L.balancing_state[open] - 1)]
     ELSE [L |-> L, res |-> Err(MissbalancedSymbols(c, open))]

\* pop_close refusing a closer while another family has an opener unmatched
pop_close_other_family_open(L, c) ==
  LET open == map_balanced_state(c)
  IN IF /\ open \in DOMAIN L.balancing_state
        /\ L.balancing_state[open] > 0
        /\ \A o \in DOMAIN L.balancing_state \ {open} : L.balancing_state[o] = 0
     THEN [L |-> [L EXCEPT !.balancing_state[open] = @ - 1],
           res |-> Ok(L.balancing_state[open] - 1)]
     ELSE [L |-> L, res |-> Err(MissbalancedSymbols(c, open))]

\* pop_close forgetting every counter when it refuses a closer
pop_close_resets_on_failure(L, c) ==
  LET open == map_balanced_state(c)
  IN IF open \in DOMAIN L.balancing_state /\ L.balancing_state[open] > 0
     THEN [L |-> [L EXCEPT !.balancing_state[open] = @ - 1],
           res |-> Ok(L.balancing_state[open] - 1)]
     ELSE [L |-> [L EXCEPT !.balancing_state = <<>>],
           res |-> Err(MissbalancedSymbols(c, open))]

\* pop_close returning the new depth without storing it
pop_close_not_stored(L, c) ==
  LET open == map_balanced_state(c)
  IN IF open \in DOMAIN L.balancing_state /\ L.balancing_state[open] > 0
     THEN [L |-> L, res |-> Ok(L.balancing_state[open] - 1)]
     ELSE [L |-> L, res |-> Err(MissbalancedSymbols(c, open))]

pop_close(L, c) ==
  LET open == map_balanced_state(c)
  IN IF open \in DOMAIN L.balancing_state /\ L.balancing_state[open] > 0
     THEN [L |-> [L EXCEPT !.balancing_state[open] = @ - 1],
           res |-> Ok(L.balancing_state[open] - 1)]
     ELSE [L |-> L, res |-> Err(MissbalancedSymbols(c, open))]

consume_digit(L, raw) ==
  Bind(chars_next(L), LAMBDA r :
    IF r.c \in AsciiDigit
    THEN [L |-> r.L, res |-> Ok(r.c)]
    ELSE [L |-> r.L, res |-> Err(InvalidNumeric(raw))])

\* the hint computed from the dot alone
numeric_hint_dot_only(seen_dot, seen_e) ==
  IF seen_dot THEN "Float" ELSE "Integer"

numeric_hint(seen_dot, seen_e) ==
  IF seen_dot \/ seen_e THEN "Float" ELSE "Integer"

\* number.push(self.consume_char().unwrap()), N the pair of scanner and text
push_consumed(N) ==
  Bind(consume_char(N.L), LAMBDA r : [L |-> r.L, number |-> Append(N.number, r.c)])

\* if matches!(self.chars.peek(), Some('+' | '-')) { number.push(...) }
push_sign(N) == IF peek(N.L) \in {"+", "-"} THEN push_consumed(N) ELSE N

RECURSIVE parse_number_loop(_, _, _)
parse_number_loop(N, seen_dot, seen_e) ==
  IF peek(N.L) = None
  THEN [L |-> N.L, res |-> Ok(Numero(N.number, numeric_hint(seen_dot, seen_e)))]
  ELSE IF peek(N.L) \in AsciiDigit
  THEN parse_number_loop(push_consumed(N), seen_dot, seen_e)
  ELSE IF peek(N.L) = "." /\ ~seen_dot /\ ~seen_e
  THEN parse_number_loop(push_consumed(N), TRUE, seen_e)
  ELSE IF peek(N.L) \in {"e", "E"} /\ ~seen_e
  THEN Bind(push_sign(push_consumed(N)), LAMBDA M :
       Try(consume_digit(M.L, M.number), LAMBDA d :
         parse_number_loop([L |-> d.L, number |-> M.number], seen_dot, TRUE)))
  ELSE IF peek(N.L) \in Alphabetic
  THEN Bind(push_consumed(N), LAMBDA M :
         [L |-> M.L, res |-> Err(InvalidNumeric(M.number))])
  ELSE [L |-> N.L, res |-> Ok(Numero(N.number, numeric_hint(seen_dot, seen_e)))]

parse_number(L, c) == parse_number_loop([L |-> L, number |-> <<c>>], FALSE, FALSE)

\* string.push(escaped) keeping the backslash in front of the character
push_escaped_with_backslash(string, escaped) == string \o <<"\\", escaped>>

\* string.push(escaped)
push_escaped(string, escaped) == Append(string, escaped)

RECURSIVE parse_string_loop(_, _)
parse_string_loop(L, string) ==
  Bind(chars_next(L), LAMBDA r :
    IF r.c = None
    THEN [L |-> r.L, res |-> Err(UnknownSymbol(UnterminatedString))]
    ELSE IF r.c = "\""
    THEN [L |-> r.L, res |-> Ok(Cadena(string))]
    ELSE IF r.c = "\\"
    THEN Bind(chars_next(r.L), LAMBDA e :
           IF e.c = None
           THEN [L |-> e.L, res |-> Err(UnknownSymbol(UnterminatedEscape))]
           ELSE parse_string_loop(e.L, push_escaped(string, e.c)))
    ELSE parse_string_loop(r.L, Append(string, r.c)))

parse_string(L, c) == parse_string_loop(L, <<>>)

OperatorStart == {"+", "-", "*", "/", "=", "<", ">", "!", "&", "|"}

TwoCharOperators ==
  {<<"=", "=">>, <<"!", "=">>, <<"<", "=">>, <<">", "=">>,
   <<"&", "&">>, <<"|", "|">>, <<"+", "+">>, <<"-", "-">>}

RECURSIVE ident_loop(_, _)
ident_loop(L, ident) ==
  IF peek(L) \in Alphanumeric \cup {"_"}
  THEN Bind(consume_char(L), LAMBDA r : ident_loop(r.L, Append(ident, r.c)))
  ELSE [L |-> L, ident |-> ident]

\* match ident.as_str()
keyword_or_identifier(ident) ==
  IF ident = <<"t", "r", "u", "e">>
  THEN Boolean(TRUE)
  ELSE IF ident = <<"f", "a", "l", "s", "e">>
  THEN Boolean(FALSE)
  ELSE Identificador(ident)

transform_to_type(L, c) ==
  CASE c \in Openers ->
         Bind(push_open(L, c), LAMBDA r :
           [L |-> r.L, res |-> Ok(Punctuation(c, "Open", r.depth))])
    [] c \in Closers ->
         Try(pop_close(L, c), LAMBDA r :
           [L |-> r.L, res |-> Ok(Punctuation(c, "Close", r.res.val))])
    [] c \in {",", ";"} -> [L |-> L, res |-> Ok(Separator(c))]
    [] c \in AsciiDigit -> parse_number(L, c)
    [] c = "\"" -> parse_string(L, c)
    [] c \in OperatorStart ->
         IF peek(L) # None /\ <<c, peek(L)>> \in TwoCharOperators
         THEN Bind(consume_char(L), LAMBDA r :
                [L |-> r.L, res |-> Ok(Operator(<<c, r.c>>))])
         ELSE [L |-> L, res |-> Ok(Operator(<<c>>))]
    [] c \in Alphabetic \cup {"_"} ->
         Bind(ident_loop(L, <<c>>), LAMBDA r :
           [L |-> r.L, res |-> Ok(keyword_or_identifier(r.ident))])
    [] OTHER -> [L |-> L, res |-> Err(UnknownSymbol(<<c>>))]

RECURSIVE skip_whitespace(_)
skip_whitespace(L) ==
  IF peek(L) \in Whitespace
  THEN skip_whitespace(consume_char(L).L)
  ELSE L

next_token(L) ==
  Bind(consume_char(skip_whitespace(L)), LAMBDA r :
    IF r.c # None
    THEN transform_to_type(r.L, r.c)
    ELSE [L |-> r.L, res |-> Ok(EOF)])

\* tokenize_all leaving its loop with the EOF marker pushed as well
tokenize_all_break_keeps_eof(tokens, token) == Ok(Append(tokens, token))

\* the break on EOF and the Ok(tokens) after the loop
tokenize_all_break(tokens, token) == Ok(tokens)

RECURSIVE tokenize_all_loop(_, _)
tokenize_all_loop(L, tokens) ==
  Bind(next_token(L), LAMBDA r :
    CASE ~r.res.ok -> r
      [] r.res.ok /\ r.res.val = EOF ->
           [L |-> r.L, res |-> tokenize_all_break(tokens, r.res.val)]
      [] OTHER -> tokenize_all_loop(r.L, Append(tokens, r.res.val)))

tokenize_all(L) == tokenize_all_loop(L, <<>>)

(***************************************************************************)
(* AST nodes and parser errors.                                            *)
(***************************************************************************)
Number(value, is_float) == [type |-> "Number", value |-> value, is_float |-> is_float]

String(value) == [type |-> "String", value |-> value]

BooleanNode(b) == [type |-> "Boolean", bool |-> b]

Identifier(name) == [type |-> "Identifier", name |-> name]

BinaryOp(left, operator, right) ==
  [type |-> "BinaryOp", left |-> left, operator |-> operator, right |-> right]

UnaryOp(operator, operand) ==
  [type |-> "UnaryOp", operator |-> operator, operand |-> operand]

Assignment(left, right) == [type |-> "Assignment", left |-> left, right |-> right]

FunctionCall(name, arguments) ==
  [type |-> "FunctionCall", name |-> name, arguments |-> arguments]

Parenthesized(expression) == [type |-> "Parenthesized", expression |-> expression]

Program(statements) == [type |-> "Program", statements |-> statements]

ExpressionStatement(expression) ==
  [type |-> "ExpressionStatement", expression |-> expression]

LexerError(e) == [type |-> "LexerError", source |-> e]

UnexpectedToken(expected, found) ==
  [type |-> "UnexpectedToken", expected |-> expected, found |-> found]

UnexpectedEOF == [type |-> "UnexpectedEOF"]

\* Option::None of the parser's current_token
NoToken == [type |-> "None"]

(***************************************************************************)
(* Parser.  The field requested is a history of the results of the         *)
(* next_token calls the parser has made; the code does not keep it.        *)
(***************************************************************************)
Parser_new(text) ==
  Bind(next_token(Lexer_new(text)), LAMBDA r :
    [lexer |-> r.L,
     current_token |-> IF r.res.ok THEN r.res.val ELSE NoToken,
     requested |-> <<r.res>>])

advance(P) ==
  Bind(next_token(P.lexer), LAMBDA r :
    IF r.res.ok
    THEN [P |-> [lexer |-> r.L,
                 current_token |-> r.res.val,
                 requested |-> Append(P.requested, r.res)],
          res |-> Ok("unit")]
    ELSE [P |-> [P EXCEPT !.lexer = r.L,
                          !.requested = Append(P.requested, r.res)],
          res |-> Err(LexerError(r.res.err))])

\* if let Some(TokenType::Operator(ref op)) = &self.current_token, op among ops
is_operator(P, ops) ==
  P.current_token.type = "Operator" /\ P.current_token.op \in ops

\* Some(TokenType::Punctuation { raw, kind }) with the given raw and kind
is_punctuation(P, raw, kind) ==
  /\ P.current_token.type = "Punctuation"
  /\ P.current_token.raw = raw
  /\ P.current_token.kind = kind

RECURSIVE parse_assignment(_)
RECURSIVE parse_binary(_, _)
RECURSIVE parse_binary_loop(_, _, _)
RECURSIVE parse_levels(_, _, _)
RECURSIVE parse_unary(_)
RECURSIVE parse_primary(_)
RECURSIVE parse_arguments(_, _)

parse_expression(P) == parse_assignment(P)

(***************************************************************************)
(* The six binary levels parse_or, parse_and, parse_equality,              *)
(* parse_comparison, parse_addition and parse_multiplication are the same  *)
(* code up to the operators they match and the function they call for      *)
(* their operands: level 1 is parse_or, level 6 parse_multiplication.      *)
(* Each level starts by calling the next one for its left operand, so the  *)
(* call of a level goes straight down to parse_unary and then runs the     *)
(* while loops on the way back up, level 6 first; a failure on the way     *)
(* leaves through the ? of every level above.  parse_levels is that way    *)
(* back up from level k to the level called.                               *)
(***************************************************************************)
\* the levels of + - and of * / exchanged
level_operators_swapped(level) ==
  CASE level = 1 -> {<<"|", "|">>}
    [] level = 2 -> {<<"&", "&">>}
    [] level = 3 -> {<<"=", "=">>, <<"!", "=">>}
    [] level = 4 -> {<<"<">>, <<">">>, <<"<", "=">>, <<">", "=">>}
    [] level = 5 -> {<<"*">>, <<"/">>}
    [] level = 6 -> {<<"+">>, <<"-">>}

level_operators(level) ==
  CASE level = 1 -> {<<"|", "|">>}
    [] level = 2 -> {<<"&", "&">>}
    [] level = 3 -> {<<"=", "=">>, <<"!", "=">>}
    [] level = 4 -> {<<"<">>, <<">">>, <<"<", "=">>, <<">", "=">>}
    [] level = 5 -> {<<"+">>, <<"-">>}
    [] level = 6 -> {<<"*">>, <<"/">>}

\* the function a level calls for its operands
parse_operand(level, P) ==
  IF level = 6 THEN parse_unary(P) ELSE parse_binary(level + 1, P)

\* the right operand taken by a call of the same level and no loop
parse_binary_loop_right(level, P, left) ==
  IF is_operator(P, level_operators(level))
  THEN Try(advance(P), LAMBDA a :
       Try(parse_binary(level, a.P), LAMBDA r :
         [P |-> r.P, res |-> Ok(BinaryOp(left, P.current_token.op, r.res.val))]))
  ELSE [P |-> P, res |-> Ok(left)]

\* while let Some(TokenType::Operator(ref op)) = &self.current_token { ... }
parse_binary_loop(level, P, left) ==
  IF is_operator(P, level_operators(level))
  THEN Try(advance(P), LAMBDA a :
       Try(parse_operand(level, a.P), LAMBDA r :
         parse_binary_loop(level, r.P,
                           BinaryOp(left, P.current_token.op, r.res.val))))
  ELSE [P |-> P, res |-> Ok(left)]

\* let mut left = self.parse_<next level>()?; followed by the loop, for the
\* levels k down to level, l the result of level k + 1
parse_levels(level, k, l) ==
  Try(l, LAMBDA r :
    IF k < level
    THEN r
    ELSE parse_levels(level, k - 1, parse_binary_loop(k, r.P, r.res.val)))

parse_binary(level, P) == parse_levels(level, 6, parse_unary(P))

parse_or(P) == parse_binary(1, P)

parse_and(P) == parse_binary(2, P)

parse_equality(P) == parse_binary(3, P)

parse_comparison(P) == parse_binary(4, P)

parse_addition(P) == parse_binary(5, P)

parse_multiplication(P) == parse_binary(6, P)

\* the right side taken by parse_or, not by parse_assignment itself
parse_assignment_flat(P) ==
  Try(parse_or(P), LAMBDA l :
    IF is_operator(l.P, {<<"=">>})
    THEN Try(advance(l.P), LAMBDA a :
         Try(parse_or(a.P), LAMBDA r :
           [P |-> r.P, res |-> Ok(Assignment(l.res.val, r.res.val))]))
    ELSE l)

parse_assignment(P) ==
  Try(parse_or(P), LAMBDA l :
    IF is_operator(l.P, {<<"=">>})
    THEN Try(advance(l.P), LAMBDA a :
         Try(parse_assignment(a.P), LAMBDA r :
           [P |-> r.P, res |-> Ok(Assignment(l.res.val, r.res.val))]))
    ELSE l)

parse_unary(P) ==
  IF is_operator(P, {<<"-">>, <<"!">>})
  THEN Try(advance(P), LAMBDA a :
       Try(parse_unary(a.P), LAMBDA r :
         [P |-> r.P, res |-> Ok(UnaryOp(P.current_token.op, r.res.val))]))
  ELSE parse_primary(P)

\* unwrap_or(TokenType::EOF) of the current token
found_token(P) == IF P.current_token = NoToken THEN EOF ELSE P.current_token

\* arguments.push putting the argument in front
parse_arguments_reversed(P, arguments) ==
  IF P.current_token # NoToken /\ ~is_punctuation(P, ")", "Close")
  THEN Try(parse_expression(P), LAMBDA e :
         IF is_punctuation(e.P, ",", "Separator")
         THEN Try(advance(e.P), LAMBDA a :
                parse_arguments(a.P, <<e.res.val>> \o arguments))
         ELSE parse_arguments(e.P, <<e.res.val>> \o arguments))
  ELSE IF is_punctuation(P, ")", "Close")
  THEN Try(advance(P), LAMBDA a : [P |-> a.P, res |-> Ok(arguments)])
  ELSE [P |-> P,
        res |-> Err(UnexpectedToken("closing parenthesis", found_token(P)))]

\* the argument loop never taking a comma
parse_arguments_no_comma(P, arguments) ==
  IF P.current_token # NoToken /\ ~is_punctuation(P, ")", "Close")
  THEN Try(parse_expression(P), LAMBDA e :
         parse_arguments(e.P, Append(arguments, e.res.val)))
  ELSE IF is_punctuation(P, ")", "Close")
  THEN Try(advance(P), LAMBDA a : [P |-> a.P, res |-> Ok(arguments)])
  ELSE [P |-> P,
        res |-> Err(UnexpectedToken("closing parenthesis", found_token(P)))]

\* the argument loop and the closing parenthesis of a function call
parse_arguments(P, arguments) ==
  IF P.current_token # NoToken /\ ~is_punctuation(P, ")", "Close")
  THEN Try(parse_expression(P), LAMBDA e :
         IF is_punctuation(e.P, ",", "Separator")
         THEN Try(advance(e.P), LAMBDA a :
                parse_arguments(a.P, Append(arguments, e.res.val)))
         ELSE parse_arguments(e.P, Append(arguments, e.res.val)))
  ELSE IF is_punctuation(P, ")", "Close")
  THEN Try(advance(P), LAMBDA a : [P |-> a.P, res |-> Ok(arguments)])
  ELSE [P |-> P,
        res |-> Err(UnexpectedToken("closing parenthesis", found_token(P)))]

parse_primary(P) ==
  CASE P.current_token.type = "Numero" ->
         Try(advance(P), LAMBDA a :
           [P |-> a.P,
            res |-> Ok(Number(P.current_token.text,
                              P.current_token.hint = "Float"))])
    [] P.current_token.type = "Cadena" ->
         Try(advance(P), LAMBDA a :
           [P |-> a.P, res |-> Ok(String(P.current_token.value))])
    [] P.current_token.type = "Boolean" ->
         Try(advance(P), LAMBDA a :
           [P |-> a.P, res |-> Ok(BooleanNode(P.current_token.bool))])
    [] P.current_token.type = "Identificador" ->
         Try(advance(P), LAMBDA a :
           IF is_punctuation(a.P, "(", "Open")
           THEN Try(advance(a.P), LAMBDA b :
                Try(parse_arguments(b.P, <<>>), LAMBDA r :
                  [P |-> r.P,
                   res |-> Ok(FunctionCall(P.current_token.name, r.res.val))]))
           ELSE [P |-> a.P, res |-> Ok(Identifier(P.current_token.name))])
    [] is_punctuation(P, "(", "Open") ->
         Try(advance(P), LAMBDA a :
         Try(parse_expression(a.P), LAMBDA e :
           IF is_punctuation(e.P, ")", "Close")
           THEN Try(advance(e.P), LAMBDA b :
                  [P |-> b.P, res |-> Ok(Parenthesized(e.res.val))])
           ELSE [P |-> e.P,
                 res |-> Err(UnexpectedToken("closing parenthesis",
                                             found_token(e.P)))]))
    [] OTHER ->
         IF P.current_token # NoToken
         THEN [P |-> P, res |-> Err(UnexpectedToken("expression", P.current_token))]
         ELSE [P |-> P, res |-> Err(UnexpectedEOF)]

parse_expression_statement(P) ==
  Try(parse_expression(P), LAMBDA e :
    [P |-> e.P, res |-> Ok(ExpressionStatement(e.res.val))])

\* a statement without a semicolon after it refused
skip_semicolon_required(P) ==
  IF is_punctuation(P, ";", "Separator")
  THEN advance(P)
  ELSE [P |-> P, res |-> Err(UnexpectedToken(";", found_token(P)))]

\* the token after a statement taken whatever it is, the EOF marker included
skip_semicolon_always(P) == advance(P)

\* Skip optional semicolon
skip_semicolon(P) ==
  IF is_punctuation(P, ";", "Separator")
  THEN advance(P)
  ELSE [P |-> P, res |-> Ok("unit")]

RECURSIVE parse_loop(_, _)
parse_loop(P, statements) ==
  IF P.current_token # NoToken /\ P.current_token # EOF
  THEN Try(parse_expression_statement(P), LAMBDA s :
       Try(skip_semicolon(s.P), LAMBDA a :
         parse_loop(a.P, Append(statements, s.res.val))))
  ELSE [P |-> P, res |-> Ok(Program(statements))]

parse(P) == parse_loop(P, <<>>)

(***************************************************************************)
(* The handlers tokenize and parse of main.rs.  A rendering made by        *)
(* format!("{:?}", ..) is a text whose fixed words are single elements and *)
(* whose payload characters and braces are elements of their own.          *)
(***************************************************************************)
\* Option<String>
Some(v) == <<v>>

Absent == <<>>

DecimalDigits == <<"0", "1", "2", "3", "4", "5", "6", "7", "8", "9">>

RECURSIVE u32_debug(_)
u32_debug(n) ==
  IF n < 10
  THEN <<DecimalDigits[n + 1]>>
  ELSE u32_debug(n \div 10) \o <<DecimalDigits[(n % 10) + 1]>>

i32_debug(n) == IF n < 0 THEN <<"-">> \o u32_debug(0 - n) ELSE u32_debug(n)

\* <char as Debug>::fmt
char_debug(c) ==
  CASE c = "'" -> <<"'", "\\", "'", "'">>
    [] c = "\\" -> <<"'", "\\", "\\", "'">>
    [] c = "\n" -> <<"'", "\\", "n", "'">>
    [] OTHER -> <<"'", c, "'">>

RECURSIVE str_escape(_)
str_escape(s) ==
  IF s = <<>>
  THEN <<>>
  ELSE (CASE Head(s) = "\"" -> <<"\\", "\"">>
          [] Head(s) = "\\" -> <<"\\", "\\">>
          [] Head(s) = "\n" -> <<"\\", "n">>
          [] OTHER -> <<Head(s)>>) \o str_escape(Tail(s))

\* <str as Debug>::fmt
str_debug(s) == <<"\"">> \o str_escape(s) \o <<"\"">>

bool_debug(b) == IF b THEN <<"true">> ELSE <<"false">>

kind_debug(token) ==
  IF token.kind = "Separator"
  THEN <<"Separator">>
  ELSE <<token.kind, "(">> \o i32_debug(token.depth) \o <<")">>

\* the derived Debug of TokenType
token_debug(token) ==
  CASE token.type = "EOF" -> <<"EOF">>
    [] token.type = "Punctuation" ->
         <<"Punctuation ", "{", " raw: ">> \o char_debug(token.raw)
           \o <<", kind: ">> \o kind_debug(token) \o <<" ", "}">>
    [] token.type = "Operator" ->
         <<"Operator(">> \o str_debug(token.op) \o <<")">>
    [] token.type = "Identificador" ->
         <<"Identificador(">> \o str_debug(token.name) \o <<")">>
    [] token.type = "Numero" ->
         <<"Numero ", "{", " raw: ">> \o str_debug(token.text)
           \o <<", kind: ", token.hint, " ", "}">>
    [] token.type = "Cadena" ->
         <<"Cadena(">> \o str_debug(token.value) \o <<")">>
    [] token.type = "Boolean" ->
         <<"Boolean(">> \o bool_debug(token.bool) \o <<")">>

\* the derived Debug of LexerError
lexer_error_debug(e) ==
  CASE e.type = "InvalidNumeric" ->
         <<"InvalidNumeric ", "{", " raw: ">> \o str_debug(e.text)
           \o <<" ", "}">>
    [] e.type = "MissbalancedSymbols" ->
         <<"MissbalancedSymbols ", "{", " symbol: ">> \o char_debug(e.symbol)
           \o <<", open: ">> \o char_debug(e.open) \o <<" ", "}">>
    [] e.type = "UnknownSymbol" ->
         <<"UnknownSymbol ", "{", " symbol: ">> \o str_debug(e.what)
           \o <<" ", "}">>

\* .split('{').next(): the text before the first `{`
RECURSIVE split_first(_)
split_first(text) ==
  IF text = <<>> \/ Head(text) = "{"
  THEN <<>>
  ELSE <<Head(text)>> \o split_first(Tail(text))

TokenInfo(token_type, raw_value, position) ==
  [token_type |-> token_type, raw_value |-> raw_value, position |-> position]

TokenizeResponse(tokens, success, error) ==
  [tokens |-> tokens, success |-> success, error |-> error]

\* the handler answering a failure with no token at all
tokenize_failure_drops_tokens(tokens, e) ==
  TokenizeResponse(<<>>, FALSE, Some(lexer_error_debug(e)))

\* the Err arm of the handler's loop
tokenize_failure(tokens, e) ==
  TokenizeResponse(tokens, FALSE, Some(lexer_error_debug(e)))

RECURSIVE tokenize_loop(_, _, _)
tokenize_loop(L, tokens, position) ==
  Bind(next_token(L), LAMBDA r :
    CASE ~r.res.ok -> tokenize_failure(tokens, r.res.err)
      [] r.res.ok /\ r.res.val = EOF ->
           TokenizeResponse(
             Append(tokens, TokenInfo(<<"EOF">>, <<>>, position)),
             TRUE, Absent)
      [] OTHER ->
           tokenize_loop(
             r.L,
             Append(tokens, TokenInfo(split_first(token_debug(r.res.val)),
                                      token_debug(r.res.val), position)),
             position + 1))

tokenize(code) == tokenize_loop(Lexer_new(code), <<>>, 0)

\* the derived Debug of ParseError
parse_error_debug(e) ==
  CASE e.type = "LexerError" ->
         <<"LexerError(">> \o lexer_error_debug(e.source) \o <<")">>
    [] e.type = "UnexpectedToken" ->
         <<"UnexpectedToken ", "{", " expected: ", "\"", e.expected, "\"",
           ", found: ">> \o token_debug(e.found) \o <<" ", "}">>
    [] e.type = "UnexpectedEOF" -> <<"UnexpectedEOF">>

ParseResponse(ast, success, error) ==
  [ast |-> ast, success |-> success, error |-> error]

\* the handler parse: Parser::new never fails, so its Err arm is not taken
parse_handler(code) ==
  Bind(parse(Parser_new(code)), LAMBDA r :
    IF r.res.ok
    THEN ParseResponse(Some(r.res.val), TRUE, Absent)
    ELSE ParseResponse(Absent, FALSE, Some(parse_error_debug(r.res.err))))

(***************************************************************************)
(* Input texts.                                                            *)
(***************************************************************************)
SeqsUpTo(S, n) == UNION {[1..k -> S] : k \in 0..n}

\* characters of every class the scanner distinguishes
Alphabet == {"(", ")", "1", ".", "e", "+", "\"", "\\", "\n", " ", "a", ";", "#"}

Inputs == SeqsUpTo(Alphabet, MaxLen)

BracketInputs == SeqsUpTo(Openers \cup Closers, MaxBracketLen)

\* digits(.digits)?([eE][+-]?digits)?
DigitStrings == SeqsUpTo({"0", "7"}, MaxDigits) \ {<<>>}

Fractions == {<<>>} \cup {<<".">> \o d : d \in DigitStrings}

Exponents ==
  {<<>>} \cup {<<e>> \o s \o d : e \in {"e", "E"},
                                s \in {<<>>, <<"+">>, <<"-">>},
                                d \in DigitStrings}

NumericInputs == {i \o f \o x : i \in DigitStrings, f \in Fractions, x \in Exponents}

\* numerals that go wrong at their last character: an exponent marker (and
\* sign) at the end of the text, a second exponent marker, a letter
ExponentMarks ==
  {<<e>> \o s : e \in {"e", "E"}, s \in {<<>>, <<"+">>, <<"-">>}}

MalformedTails ==
  ExponentMarks
    \cup {m \o d \o <<e>> : m \in ExponentMarks, d \in DigitStrings, e \in {"e", "E"}}
    \cup {<<"x">>}
    \cup {m \o d \o <<"x">> : m \in ExponentMarks, d \in DigitStrings}

MalformedNumericInputs ==
  {i \o f \o t : i \in DigitStrings, f \in Fractions, t \in MalformedTails}

\* an opening quote followed by plain characters, backslashes and quotes
StringInputs == {<<"\"">> \o b : b \in SeqsUpTo({"a", "n", "\\", "\""}, MaxStrLen)}

\* operand (operator operand)*, the words separated by one space: the i-th
\* operand is the i-th name, the operators are the binary operators
BinaryOperators ==
  {<<"|", "|">>, <<"&", "&">>, <<"=", "=">>, <<"!", "=">>,
   <<"<">>, <<">">>, <<"<", "=">>, <<">", "=">>,
   <<"+">>, <<"-">>, <<"*">>, <<"/">>}

OperandNames == <<"a", "b", "c", "d", "f", "g">>

RECURSIVE ChainText(_)
ChainText(ops) ==
  IF ops = <<>>
  THEN <<OperandNames[1]>>
  ELSE ChainText(SubSeq(ops, 1, Len(ops) - 1))
         \o <<" ">> \o ops[Len(ops)] \o <<" ">> \o <<OperandNames[Len(ops) + 1]>>

OperatorInputs ==
  {ChainText(ops) : ops \in SeqsUpTo(BinaryOperators, MaxOps)}
    \cup {<<"1", " ", "+", " ", "2", " ", "*", " ", "3">>}

\* chains of operands joined by binary operators and at least one "="
AssignmentInputs ==
  {ChainText(ops) : ops \in {o \in SeqsUpTo(BinaryOperators \cup {<<"=">>}, MaxOps) :
                               \E i \in DOMAIN o : o[i] = <<"=">>}}
    \cup {<<"1", " ", "=", " ", "2">>}

\* programs: statements that begin with a name or a numeral, each followed
\* by a semicolon, a space, both or (the last one) nothing; and blank texts
StatementTexts ==
  {<<"x", " ", "=", " ", "1", "0">>,
   <<"y", " ", "=", " ", "2", "0">>,
   <<"a">>,
   <<"1", " ", "+", " ", "2">>}

StatementEnds == {<<";", " ">>, <<" ">>, <<";">>}

RECURSIVE ProgramTexts(_)
ProgramTexts(n) ==
  IF n = 0 THEN {<<>>}
  ELSE {p \o s \o e : p \in ProgramTexts(n - 1), s \in StatementTexts, e \in StatementEnds}

ProgramInputs ==
  UNION {ProgramTexts(n) : n \in 0..MaxStmts}
    \cup {p \o s : p \in UNION {ProgramTexts(n) : n \in 0..(MaxStmts - 1)},
                   s \in StatementTexts}
    \cup {<<" ">>, <<"\n", " ">>}

\* calls name(argument, argument, ...) and names followed by something else
CallNames == {<<"f">>, <<"f", "u", "n", "c">>}

ArgumentTexts ==
  {<<"x">>,
   <<"y", " ", "+", " ", "1">>,
   <<"1">>,
   <<"g", "(", "x", ")">>,
   <<"a", " ", "=", " ", "b">>}

RECURSIVE ArgumentLists(_)
ArgumentLists(n) ==
  IF n = 0 THEN {<<>>}
  ELSE {IF l = <<>> THEN a ELSE l \o <<",", " ">> \o a :
          l \in ArgumentLists(n - 1), a \in ArgumentTexts}

CallInputs ==
  {n \o <<"(">> \o l \o <<")">> :
     n \in CallNames, l \in UNION {ArgumentLists(k) : k \in 0..MaxArgs}}
    \cup {n \o t : n \in CallNames,
                   t \in {<<>>, <<" ", "+", " ", "1">>, <<" ", "=", " ", "1">>}}

\* texts whose closing parenthesis is missing: a grouping cut after its
\* expression or followed by another operand, a call cut after its arguments
GroupedTexts == {<<"1">>, <<"a">>, <<"a", " ", "+", " ", "1">>}

UnclosedGroupings ==
  {<<"(">> \o e \o t : e \in GroupedTexts, t \in {<<>>, <<" ", "b">>}}

UnclosedCalls ==
  {n \o <<"(">> \o l :
     n \in CallNames, l \in UNION {ArgumentLists(k) : k \in 0..MaxArgs}}

\* texts that end where an expression has to begin
TruncatedInputs ==
  {<<"a", " ">> \o op \o t : op \in BinaryOperators \cup {<<"=">>}, t \in {<<>>, <<" ">>}}
    \cup {<<"1", " ", "+">>, <<"-">>, <<"!">>, <<"(">>, <<"-", " ", "-">>,
          <<"(", "(">>, <<"1", " ", "*", " ", "(">>}

IncompleteInputs == UnclosedGroupings \cup UnclosedCalls \cup TruncatedInputs

\* the text of the unit test test_balanced_symbols
BalancedSymbols == <<"(", "{", "[", "]", "}", ")">>

TokenizeInputs == Inputs \cup {BalancedSymbols}

\* texts for the runs of the parser: every short text, programs of several
\* statements, calls with argument lists, texts that stop early, a
\* statement followed by a call
StatementsThenCalls ==
  {s \o <<";", " ">> \o c : s \in StatementTexts, c \in CallInputs}

ParseInputs ==
  Inputs \cup ProgramInputs \cup CallInputs \cup IncompleteInputs
    \cup StatementsThenCalls

\* expressions with the boolean literals among their operands
BooleanOperands ==
  {<<"t", "r", "u", "e">>, <<"f", "a", "l", "s", "e">>, <<"a">>, <<"1">>}

BooleanInputs ==
  BooleanOperands
    \cup {<<"!">> \o o : o \in BooleanOperands}
    \cup {<<"(">> \o o \o <<")">> : o \in BooleanOperands}
    \cup {<<"f", "(">> \o o \o <<")">> : o \in BooleanOperands}
    \cup {<<"x", " ", "=", " ">> \o o : o \in BooleanOperands}
    \cup {l \o <<" ">> \o op \o <<" ">> \o r :
            l \in BooleanOperands, r \in BooleanOperands,
            op \in {<<"&", "&">>, <<"|", "|">>, <<"=", "=">>}}

\* calls of f whose argument list is any row of arguments and commas
CommaItems == {"a", "b", ","}

RECURSIVE Joined(_)
Joined(items) ==
  IF Len(items) <= 1 THEN items
  ELSE <<Head(items), " ">> \o Joined(Tail(items))

CommaInputs ==
  {<<"f", "(">> \o Joined(items) \o <<")">> :
     items \in SeqsUpTo(CommaItems, MaxCommaItems)}
    \cup {<<"f", "(", "a", ",", " ", "b", ")">>,
          <<"f", "(", "a", " ", "b", ")">>,
          <<"f", "(", "a", ",", " ", "b", ",", ")">>,
          <<"f", "(", ",", "a", ")">>,
          <<"f", "(", "a", ",", ",", "b", ")">>}

\* runs of prefix operators before a primary, alone and as the left operand
\* of *; every pair of operator characters
UnaryRuns == SeqsUpTo({"-", "!"}, MaxUnary) \ {<<>>}

UnaryPrimaries == {<<"x">>, <<"1">>, <<"(", "x", ")">>}

UnaryTails == {<<>>, <<" ", "*", " ", "b">>}

OperatorPairs == {<<c, d>> : c \in OperatorStart, d \in OperatorStart}

UnaryInputs ==
  {r \o p \o t : r \in UnaryRuns, p \in UnaryPrimaries, t \in UnaryTails}
    \cup OperatorPairs

\* the texts of the scenarios of the specification and of the unit tests
ScenarioInputs ==
  {<<"(", "(", ")", "[", "]", "]">>,
   <<"x", " ", "=", " ", "5", " ", "+", " ", "3", " ", "*", " ", "2">>,
   <<"f", "u", "n", "c", "(", "x", ",", " ", "y", " ", "+", " ", "1", ")">>,
   <<"1", " ", "+", " ", "2", " ", "*", " ", "3">>,
   <<"a", " ", "=", " ", "b", " ", "=", " ", "c">>,
   <<"(", "{", "[", "]", "}", ")">>,
   <<"1", "2", "3">>,
   <<"t", "r", "u", "e">>,
   <<"\"", "h", "e", "l", "l", "o", "\"">>}

(***************************************************************************)
(* State machine: a scanner and a parser over the same text; a second      *)
(* scanner over it (second, with the results of its calls); the result of  *)
(* one call of tokenize_all on that second scanner (all_tokens); the       *)
(* responses of the handlers tokenize and parse of main.rs, which build    *)
(* their own scanner and parser.                                           *)
(***************************************************************************)
NoParser == [constructed |-> FALSE]

NoResult == [pending |-> TRUE]

Fresh ==
  /\ lexer = Lexer_new(input)
  /\ results = <<>>
  /\ parser = NoParser
  /\ parse_result = NoResult
  /\ second = [lexer |-> Lexer_new(input), results |-> <<>>]
  /\ all_tokens = NoResult
  /\ tokenize_response = NoResult
  /\ parse_response = NoResult

Init == input \in Inputs /\ Fresh

InitBrackets == input \in BracketInputs /\ Fresh

InitNumeric == input \in NumericInputs /\ Fresh

InitScenarios == input \in ScenarioInputs /\ Fresh

InitMalformed == input \in MalformedNumericInputs /\ Fresh

InitStrings == input \in StringInputs /\ Fresh

InitOperators == input \in OperatorInputs /\ Fresh

InitAssignment == input \in AssignmentInputs /\ Fresh

InitPrograms == input \in ProgramInputs /\ Fresh

InitCalls == input \in CallInputs /\ Fresh

InitIncomplete == input \in IncompleteInputs /\ Fresh

InitTokenize == input \in TokenizeInputs /\ Fresh

InitParseRuns == input \in ParseInputs /\ Fresh

InitBooleans == input \in BooleanInputs /\ Fresh

InitCommas == input \in CommaInputs /\ Fresh

InitUnary == input \in UnaryInputs /\ Fresh

EofCalls == Cardinality({i \in DOMAIN results : results[i] = Ok(EOF)})

\* one call of Lexer::next_token by the scanner's user
NextToken ==
  /\ EofCalls < MaxEofCalls
  /\ Bind(next_token(lexer), LAMBDA r :
       /\ lexer' = r.L
       /\ results' = Append(results, r.res))
  /\ UNCHANGED <<input, parser, parse_result,
                 second, all_tokens, tokenize_response, parse_response>>

\* Parser::new(input)
ParserNew ==
  /\ parser = NoParser
  /\ parser' = Parser_new(input)
  /\ UNCHANGED <<input, lexer, results, parse_result,
                 second, all_tokens, tokenize_response, parse_response>>

\* Parser::parse on the constructed parser
ParserParse ==
  /\ parser # NoParser
  /\ parse_result = NoResult
  /\ Bind(parse(parser), LAMBDA r :
       /\ parser' = r.P
       /\ parse_result' = r.res)
  /\ UNCHANGED <<input, lexer, results,
                 second, all_tokens, tokenize_response, parse_response>>

\* the second scanner reading the bracket counters of the first one, as if
\* the map were shared between instances
instance_state_shared_counters(S) ==
  [S.lexer EXCEPT !.balancing_state = lexer.balancing_state]

\* the fields a call reads and writes: those of its own instance
instance_state(S) == S.lexer

SecondEofCalls ==
  Cardinality({i \in DOMAIN second.results : second.results[i] = Ok(EOF)})

\* one call of Lexer::next_token on the second scanner
NextTokenSecond ==
  /\ SecondEofCalls < MaxEofCalls
  /\ Bind(next_token(instance_state(second)), LAMBDA r :
       second' = [lexer |-> r.L, results |-> Append(second.results, r.res)])
  /\ UNCHANGED <<input, lexer, results, parser, parse_result,
                 all_tokens, tokenize_response, parse_response>>

NextScanners == NextToken \/ NextTokenSecond

\* one call of Lexer::tokenize_all on the second scanner, before any other
\* call on it
TokenizeAll ==
  /\ second.results = <<>>
  /\ all_tokens = NoResult
  /\ Bind(tokenize_all(second.lexer), LAMBDA r :
       /\ second' = [second EXCEPT !.lexer = r.L]
       /\ all_tokens' = r.res)
  /\ UNCHANGED <<input, lexer, results, parser, parse_result,
                 tokenize_response, parse_response>>

NextTokenize == NextToken \/ TokenizeAll

\* one request to the handler tokenize with the text as its code
Tokenize ==
  /\ tokenize_response = NoResult
  /\ tokenize_response' = tokenize(input)
  /\ UNCHANGED <<input, lexer, results, parser, parse_result,
                 second, all_tokens, parse_response>>

NextTokenizeHandler == NextToken \/ Tokenize

\* one request to the handler parse with the text as its code
ParseHandler ==
  /\ parse_response = NoResult
  /\ parse_response' = parse_handler(input)
  /\ UNCHANGED <<input, lexer, results, parser, parse_result,
                 second, all_tokens, tokenize_response>>

NextParseRuns == ParserNew \/ ParserParse \/ ParseHandler

Next == NextToken \/ ParserNew \/ ParserParse

Spec == Init /\ [][Next]_vars

SpecBrackets == InitBrackets /\ [][Next]_vars

SpecNumeric == InitNumeric /\ [][Next]_vars

SpecScenarios == InitScenarios /\ [][Next]_vars

SpecMalformed == InitMalformed /\ [][Next]_vars

SpecStrings == InitStrings /\ [][Next]_vars

SpecOperators == InitOperators /\ [][Next]_vars

SpecAssignment == InitAssignment /\ [][Next]_vars

SpecPrograms == InitPrograms /\ [][Next]_vars

SpecCalls == InitCalls /\ [][Next]_vars

SpecIncomplete == InitIncomplete /\ [][Next]_vars

SpecTwoScanners == Init /\ [][NextScanners]_vars

SpecTokenize == InitTokenize /\ [][NextTokenize]_vars

SpecTokenizeHandler == Init /\ [][NextTokenizeHandler]_vars

SpecParseRuns == InitParseRuns /\ [][NextParseRuns]_vars

SpecBooleans == InitBooleans /\ [][Next]_vars

SpecCommas == InitCommas /\ [][Next]_vars

SpecUnary == InitUnary /\ [][Next]_vars

(***************************************************************************)
(* Reference notions the properties are stated with.  They are computed    *)
(* from the input text alone, never from the scanner's counters.           *)
(***************************************************************************)
\* number of characters the scanner has taken from the input
Taken == Len(input) - Len(lexer.chars)

TakenText == SubSeq(input, 1, Taken)

Count(text, S) == Cardinality({i \in DOMAIN text : text[i] \in S})

OpenerOf(c) == IF c = ")" THEN "(" ELSE IF c = "]" THEN "[" ELSE "{"

CloserOf(o) == IF o = "(" THEN ")" ELSE IF o = "[" THEN "]" ELSE "}"

Prefix(text, n) == SubSeq(text, 1, n)

\* openers of the family of o in text that no closer of text has matched; a
\* closer that finds no unmatched opener of its family matches nothing
RECURSIVE Unmatched(_, _)
Unmatched(text, o) ==
  IF text = <<>> THEN 0
  ELSE LET n == Unmatched(Prefix(text, Len(text) - 1), o)
           c == text[Len(text)]
       IN IF c = o THEN n + 1
          ELSE IF c = CloserOf(o) /\ n > 0 THEN n - 1
          ELSE n

\* position i of text holds a closer whose family has no unmatched opener
BadCloser(text, i) ==
  /\ text[i] \in Closers
  /\ Unmatched(Prefix(text, i - 1), OpenerOf(text[i])) = 0

\* the first such position, 0 when there is none
FirstBadCloser(text) ==
  IF \E i \in DOMAIN text : BadCloser(text, i)
  THEN CHOOSE i \in DOMAIN text :
         BadCloser(text, i) /\ \A j \in 1..(i - 1) : ~BadCloser(text, j)
  ELSE 0

IsOpenToken(r, o) ==
  r.ok /\ r.val.type = "Punctuation" /\ r.val.kind = "Open" /\ r.val.raw = o

IsCloseToken(r, c) ==
  r.ok /\ r.val.type = "Punctuation" /\ r.val.kind = "Close" /\ r.val.raw = c

IsError(r, kind) == ~r.ok /\ r.err.type = kind

(***************************************************************************)
(* C1: if the scanner fails on any token the parser requests, the first    *)
(* one included, Parser::new followed by parse() returns                   *)
(* ParseError::LexerError wrapping that scanner error, never Ok(Program).  *)
(***************************************************************************)
C1_ScannerFailureIsPropagated ==
  parse_result # NoResult =>
    \A i \in DOMAIN parser.requested :
      ~parser.requested[i].ok =>
        parse_result = Err(LexerError(parser.requested[i].err))

(***************************************************************************)
(* C2: in a text of bracket characters, the first closer whose family has  *)
(* no unmatched opener makes next_token fail with MissbalancedSymbols      *)
(* carrying that closer and its opener, on the call that scans it (every   *)
(* call before it succeeds); every closer whose family has an unmatched    *)
(* opener succeeds with a Close token.  Call i scans character i.          *)
(***************************************************************************)
C2_FirstUnmatchedCloserFails ==
  \A i \in DOMAIN results :
    i <= Len(input) =>
      /\ i = FirstBadCloser(input) =>
           results[i] = Err(MissbalancedSymbols(input[i], OpenerOf(input[i])))
      /\ (FirstBadCloser(input) = 0 \/ i < FirstBadCloser(input)) => results[i].ok
      /\ (input[i] \in Closers /\ ~BadCloser(input, i)) =>
           IsCloseToken(results[i], input[i])

\* a closer failed after a closer of the same text had succeeded
C2_Witness ==
  \E i \in DOMAIN results :
    /\ IsError(results[i], "MissbalancedSymbols")
    /\ i = FirstBadCloser(input)
    /\ \E j \in 1..(i - 1) : IsCloseToken(results[j], input[j])

(***************************************************************************)
(* C3: the text (()[]] ends in MissbalancedSymbols for "]" with opener     *)
(* "[", raised when the second "]" is scanned and not before.              *)
(* C3_Original: this holds both for scanning token by token and for        *)
(* parsing.  C3_ScanFailsParseStopsEarlier: it holds for scanning token by *)
(* token; the parser stops earlier, at the first ")", with UnexpectedToken *)
(* (expected "expression"), before any "]" is scanned.                     *)
(***************************************************************************)
C3Input == <<"(", "(", ")", "[", "]", "]">>

C3_ScanEndsInMismatch ==
  /\ \A i \in DOMAIN results : i <= 5 => results[i].ok
  /\ Len(results) >= 6 => results[6] = Err(MissbalancedSymbols("]", "["))

C3_Original ==
  input = C3Input =>
    /\ C3_ScanEndsInMismatch
    /\ parse_result # NoResult =>
         parse_result = Err(LexerError(MissbalancedSymbols("]", "[")))

C3_ScanFailsParseStopsEarlier ==
  input = C3Input =>
    /\ C3_ScanEndsInMismatch
    /\ parse_result # NoResult =>
         /\ parse_result =
              Err(UnexpectedToken("expression", Punctuation(")", "Close", 1)))
         /\ Len(parser.requested) = 3
         /\ parser.lexer.chars = <<"[", "]", "]">>

C3_Witness ==
  /\ input = C3Input
  /\ Len(results) >= 6
  /\ parse_result # NoResult

(***************************************************************************)
(* C4: an Open token carries its family's nesting depth before the open, a *)
(* Close token the family's depth after the pop, so a Close token carries  *)
(* the depth of the Open token it matches (the most recent unmatched       *)
(* opener of its family).  Texts of bracket characters, call i scans       *)
(* character i.                                                            *)
(***************************************************************************)
\* the opener matched by the closer at position i
MatchOf(text, i) ==
  LET o == OpenerOf(text[i])
      after == Unmatched(Prefix(text, i), o)
  IN CHOOSE j \in 1..(i - 1) :
       /\ text[j] = o
       /\ Unmatched(Prefix(text, j - 1), o) = after
       /\ \A k \in (j + 1)..(i - 1) :
            ~(text[k] = o /\ Unmatched(Prefix(text, k - 1), o) = after)

C4_DepthTags ==
  \A i \in DOMAIN results :
    i <= Len(input) =>
      /\ input[i] \in Openers =>
           /\ IsOpenToken(results[i], input[i])
           /\ results[i].val.depth = Unmatched(Prefix(input, i - 1), input[i])
      /\ (input[i] \in Closers /\ ~BadCloser(input, i)) =>
           /\ IsCloseToken(results[i], input[i])
           /\ results[i].val.depth = Unmatched(Prefix(input, i), OpenerOf(input[i]))
           /\ results[i].val.depth = results[MatchOf(input, i)].val.depth

\* a nested pair has been closed: a Close token of depth 1 was returned
C4_Witness ==
  \E i \in DOMAIN results :
    /\ i <= Len(input)
    /\ IsCloseToken(results[i], input[i])
    /\ results[i].val.depth = 1
    /\ MatchOf(input, i) < i - 1

(***************************************************************************)
(* C5: each family's balance counter equals the number of Open tokens      *)
(* returned for the family minus the number of Close tokens returned for   *)
(* it (so it depends on no other family), is never negative, and is 0 once *)
(* a well-formed text of a single family has been scanned completely.      *)
(***************************************************************************)
Counter(o) ==
  IF o \in DOMAIN lexer.balancing_state THEN lexer.balancing_state[o] ELSE 0

Returned(o, kind) ==
  Cardinality({i \in DOMAIN results :
                 /\ results[i].ok
                 /\ results[i].val.type = "Punctuation"
                 /\ results[i].val.kind = kind
                 /\ results[i].val.raw = IF kind = "Open" THEN o ELSE CloserOf(o)})

WellFormedSingleFamily(text, o) ==
  /\ \A i \in DOMAIN text : text[i] \in {o, CloserOf(o)}
  /\ FirstBadCloser(text) = 0
  /\ Unmatched(text, o) = 0

C5_CounterDiscipline ==
  \A o \in Openers :
    /\ Counter(o) = Returned(o, "Open") - Returned(o, "Close")
    /\ Counter(o) >= 0
    /\ (WellFormedSingleFamily(input, o) /\ lexer.chars = <<>>) => Counter(o) = 0

\* a nested well-formed text of one family has been scanned completely while
\* the scanner also held counters above 0 on the way
C5_Witness ==
  /\ \E o \in Openers : WellFormedSingleFamily(input, o)
  /\ Len(input) >= 4
  /\ input[2] \in Openers
  /\ lexer.chars = <<>>
  /\ Len(results) >= Len(input)

(***************************************************************************)
(* C6: once the input is exhausted or next_token has returned EOF, a call  *)
(* of next_token returns EOF, without error, and leaves the scanner        *)
(* (cursor, line, column, offset, bracket counters) unchanged.             *)
(***************************************************************************)
C6_EofIsIdempotent ==
  [][(results' # results
        /\ (lexer.chars = <<>> \/ (results # <<>> /\ results[Len(results)] = Ok(EOF))))
       => (results'[Len(results')] = Ok(EOF) /\ lexer' = lexer)]_vars

\* EOF has been returned twice after a token or an error had been returned
C6_Witness ==
  /\ Len(results) >= 3
  /\ results[1] # Ok(EOF)
  /\ results[Len(results) - 1] = Ok(EOF)
  /\ results[Len(results)] = Ok(EOF)

(***************************************************************************)
(* C7: after any sequence of next_token calls the offset counter equals    *)
(* the number of characters taken from the input and the line counter      *)
(* equals 1 plus the number of newlines taken.                             *)
(***************************************************************************)
C7_CountersMatchTaken ==
  /\ lexer.position_offset = Taken
  /\ lexer.cur_line = 1 + Count(TakenText, {"\n"})

(***************************************************************************)
(* C8: when the scanner consumes a newline the line counter grows by one   *)
(* and the column is reset to the column of a freshly constructed scanner. *)
(* Stated for the scanner that has consumed whitespace only, the last      *)
(* character being a newline.                                              *)
(***************************************************************************)
C8_NewlineResetsColumn ==
  (/\ Taken > 0
   /\ \A i \in 1..Taken : input[i] \in Whitespace
   /\ input[Taken] = "\n")
  => /\ lexer.cur_col = Lexer_new(input).cur_col
     /\ lexer.cur_line = 1 + Count(TakenText, {"\n"})

(***************************************************************************)
(* C9: for a text of the form digits(.digits)?([eE][+-]?digits)? the first *)
(* next_token call returns a numeric token, whose hint is Float if and     *)
(* only if the text holds a "." or an exponent marker, else Integer.       *)
(***************************************************************************)
C9_NumericClassification ==
  results # <<>> =>
    /\ results[1].ok
    /\ results[1].val.type = "Numero"
    /\ results[1].val.hint =
         IF Count(input, {".", "e", "E"}) > 0 THEN "Float" ELSE "Integer"

\* a text with an exponent and no dot has been scanned as Float
C9_Witness ==
  /\ results # <<>>
  /\ Count(input, {"."}) = 0
  /\ Count(input, {"e", "E"}) = 1
  /\ results[1].ok
  /\ results[1].val.hint = "Float"

(***************************************************************************)
(* C10: the raw text of a numeric token is exactly the sequence of         *)
(* characters the scanner took for the literal, and the Number node built  *)
(* from it carries the same text.  Stated for the first token of a text of *)
(* the numeric form, which the scanner takes whole.                        *)
(***************************************************************************)
C10_RawTextVerbatim ==
  /\ (Len(results) = 1 /\ results[1].ok /\ results[1].val.type = "Numero")
       => results[1].val.text = TakenText
  /\ (parse_result # NoResult /\ parse_result.ok)
       => parse_result.val.statements[1].expression.value = input

(***************************************************************************)
(* C11: a numeral that goes wrong at its last character (an exponent       *)
(* marker, with or without sign, at the end of the text; a second exponent *)
(* marker; a letter attached to the digits) makes the first next_token     *)
(* call fail with InvalidNumeric whose raw text is the text scanned so     *)
(* far, offending character included, that is the whole text; no numeric   *)
(* token is returned for it.                                               *)
(***************************************************************************)
C11_MalformedNumericFails ==
  results # <<>> => results[1] = Err(InvalidNumeric(input))

(***************************************************************************)
(* Escapes of a text, told from the text alone: a backslash escapes the    *)
(* character after it when an even number of backslashes stands directly   *)
(* before it.                                                              *)
(***************************************************************************)
\* number of backslashes standing directly before position i
RunBefore(text, i) ==
  LET stops == {j \in 1..(i - 1) : text[j] # "\\"}
      last == IF stops = {} THEN 0 ELSE CHOOSE j \in stops : \A k \in stops : k <= j
  IN i - 1 - last

IsEscape(text, i) == text[i] = "\\" /\ RunBefore(text, i) % 2 = 0

IsEscaped(text, i) == i > 1 /\ IsEscape(text, i - 1)

\* positions after the opening quote that hold an unescaped quote
ClosingQuotes(text) ==
  {k \in 2..Len(text) : text[k] = "\"" /\ ~IsEscaped(text, k)}

\* the first of them, 0 when the literal is not closed
ClosingQuote(text) ==
  IF ClosingQuotes(text) = {} THEN 0
  ELSE CHOOSE k \in ClosingQuotes(text) : \A j \in ClosingQuotes(text) : k <= j

\* the characters at the positions of K, in the order of the text
Pick(text, K) ==
  [n \in 1..Cardinality(K) |->
     text[CHOOSE p \in K : Cardinality({q \in K : q < p}) = n - 1]]

\* content of the literal closed at position k, its escaping backslashes dropped
Decoded(text, k) == Pick(text, {i \in 2..(k - 1) : ~IsEscape(text, i)})

(***************************************************************************)
(* C12: for a string literal closed by an unescaped quote the first        *)
(* next_token call returns a string token whose value is the content of    *)
(* the literal with each escaping backslash dropped and the character      *)
(* after it kept as it is (no translation of n), every other character     *)
(* kept, in order; the scanner stops right after the closing quote.        *)
(***************************************************************************)
C12_StringDecoding ==
  (results # <<>> /\ ClosingQuote(input) # 0) =>
    /\ results[1] = Ok(Cadena(Decoded(input, ClosingQuote(input))))
    /\ Len(results) = 1 => Taken = ClosingQuote(input)

\* a literal holding an escaped quote and an escaped n has been decoded
C12_Witness ==
  /\ Len(results) = 1
  /\ results[1] = Ok(Cadena(<<"\"", "n">>))
  /\ input = <<"\"", "\\", "\"", "\\", "n", "\"">>

(***************************************************************************)
(* C13: when the text ends before the closing quote of a string literal,   *)
(* also right after a backslash, next_token fails with an error of the     *)
(* kind UnterminatedLiteral, which is not the kind UnknownSymbol used for  *)
(* characters the scanner does not know.                                   *)
(***************************************************************************)
C13_UnterminatedLiteralKind ==
  (results # <<>> /\ ClosingQuote(input) = 0) =>
    /\ ~results[1].ok
    /\ results[1].err.type = "UnterminatedLiteral"
    /\ results[1].err.type # UnknownSymbol(<<"#">>).type

(***************************************************************************)
(* Expression texts read from the text alone: the words between spaces,    *)
(* operands at the odd places and operators at the even ones.              *)
(***************************************************************************)
RECURSIVE Words(_)
Words(text) ==
  IF text = <<>> THEN <<>>
  ELSE IF \E i \in DOMAIN text : text[i] = " "
  THEN LET i == CHOOSE i \in DOMAIN text :
                  text[i] = " " /\ \A j \in 1..(i - 1) : text[j] # " "
       IN <<SubSeq(text, 1, i - 1)>> \o Words(SubSeq(text, i + 1, Len(text)))
  ELSE <<text>>

\* the precedence table: 1 binds loosest, 6 tightest
Precedence(op) ==
  CASE op = <<"|", "|">> -> 1
    [] op = <<"&", "&">> -> 2
    [] op \in {<<"=", "=">>, <<"!", "=">>} -> 3
    [] op \in {<<"<">>, <<">">>, <<"<", "=">>, <<">", "=">>} -> 4
    [] op \in {<<"+">>, <<"-">>} -> 5
    [] op \in {<<"*">>, <<"/">>} -> 6

OperandNode(w) == IF w[1] \in AsciiDigit THEN Number(w, FALSE) ELSE Identifier(w)

\* Program of the one statement e
OneStatement(e) == Ok(Program(<<ExpressionStatement(e)>>))

(***************************************************************************)
(* C14: precedence from loosest to tightest is ||, &&, == !=, < > <= >=,   *)
(* + -, * /.  Of two binary operators of different levels the tighter one  *)
(* takes the middle operand: a op1 b op2 c parses to                       *)
(* BinaryOp(op1, a, BinaryOp(op2, b, c)) when op2 binds tighter and to     *)
(* BinaryOp(op2, BinaryOp(op1, a, b), c) when op1 binds tighter; so        *)
(* 1 + 2 * 3 is a BinaryOp of + whose right child is a BinaryOp of *.     *)
(***************************************************************************)
C14_Precedence ==
  LET w == Words(input)
  IN (parse_result # NoResult /\ Len(w) = 5 /\ Precedence(w[2]) # Precedence(w[4])) =>
       parse_result =
         OneStatement(
           IF Precedence(w[4]) > Precedence(w[2])
           THEN BinaryOp(OperandNode(w[1]), w[2],
                         BinaryOp(OperandNode(w[3]), w[4], OperandNode(w[5])))
           ELSE BinaryOp(BinaryOp(OperandNode(w[1]), w[2], OperandNode(w[3])),
                         w[4], OperandNode(w[5])))

\* 1 + 2 * 3 has been parsed to a BinaryOp of + whose right child is one of *
C14_Witness ==
  /\ input = <<"1", " ", "+", " ", "2", " ", "*", " ", "3">>
  /\ parse_result # NoResult
  /\ parse_result.ok
  /\ parse_result.val.statements[1].expression.operator = <<"+">>
  /\ parse_result.val.statements[1].expression.right.type = "BinaryOp"
  /\ parse_result.val.statements[1].expression.right.operator = <<"*">>

(***************************************************************************)
(* C15: a chain of binary operators of one precedence level parses to the  *)
(* left-associative tree, a op1 b op2 c to                                 *)
(* BinaryOp(op2, BinaryOp(op1, a, b), c), for every level and every length *)
(* of the chain.                                                           *)
(***************************************************************************)
\* the left-associative tree of the first 2n + 1 words of w
RECURSIVE LeftTree(_, _)
LeftTree(w, n) ==
  IF n = 0 THEN OperandNode(w[1])
  ELSE BinaryOp(LeftTree(w, n - 1), w[2 * n], OperandNode(w[2 * n + 1]))

SameLevelChain(w) ==
  /\ Len(w) >= 5
  /\ \A i \in 1..((Len(w) - 1) \div 2) : Precedence(w[2 * i]) = Precedence(w[2])

C15_LeftAssociative ==
  LET w == Words(input)
  IN (parse_result # NoResult /\ SameLevelChain(w)) =>
       parse_result = OneStatement(LeftTree(w, (Len(w) - 1) \div 2))

\* a chain of two different operators of one level has been parsed
C15_Witness ==
  /\ input = <<"a", " ", "-", " ", "b", " ", "+", " ", "c">>
  /\ parse_result # NoResult
  /\ parse_result.ok
  /\ parse_result.val.statements[1].expression.left.type = "BinaryOp"

(***************************************************************************)
(* The tree of an expression text, told from its words: an expression      *)
(* without "=" splits at the last of its operators of the loosest level    *)
(* present; an expression with "=" splits at its first "=".                *)
(***************************************************************************)
\* places of the operators among the words lo..hi
OperatorPlaces(lo, hi) == {k \in lo..hi : k % 2 = 0}

RECURSIVE BinaryTree(_, _, _)
BinaryTree(w, lo, hi) ==
  IF lo = hi THEN OperandNode(w[lo])
  ELSE LET k == CHOOSE k \in OperatorPlaces(lo, hi) :
                  \A j \in OperatorPlaces(lo, hi) :
                    \/ Precedence(w[j]) > Precedence(w[k])
                    \/ (Precedence(w[j]) = Precedence(w[k]) /\ j <= k)
       IN BinaryOp(BinaryTree(w, lo, k - 1), w[k], BinaryTree(w, k + 1, hi))

RECURSIVE AssignmentTree(_, _, _)
AssignmentTree(w, lo, hi) ==
  LET eqs == {k \in OperatorPlaces(lo, hi) : w[k] = <<"=">>}
  IN IF eqs = {} THEN BinaryTree(w, lo, hi)
     ELSE LET k == CHOOSE k \in eqs : \A j \in eqs : k <= j
          IN Assignment(BinaryTree(w, lo, k - 1), AssignmentTree(w, k + 1, hi))

(***************************************************************************)
(* C16: assignment is right-associative and binds looser than every        *)
(* binary operator: a = b = c parses to Assignment(a, Assignment(b, c)),   *)
(* the whole expression after an "=" is its value and the whole            *)
(* expression before it its target, whatever its form, so 1 = 2 parses to  *)
(* Assignment(Number 1, Number 2).                                         *)
(***************************************************************************)
C16_AssignmentRightAssociative ==
  LET w == Words(input)
  IN parse_result # NoResult =>
       /\ parse_result = OneStatement(AssignmentTree(w, 1, Len(w)))
       /\ parse_result.val.statements[1].expression.type = "Assignment"
       /\ input = <<"1", " ", "=", " ", "2">> =>
            parse_result =
              OneStatement(Assignment(Number(<<"1">>, FALSE), Number(<<"2">>, FALSE)))

\* a = b = c has been parsed to an assignment whose value is an assignment
C16_Witness ==
  /\ input = <<"a", " ", "=", " ", "b", " ", "=", " ", "c">>
  /\ parse_result =
       OneStatement(Assignment(Identifier(<<"a">>),
                               Assignment(Identifier(<<"b">>), Identifier(<<"c">>))))

(***************************************************************************)
(* The statements of a program text, told from the text: semicolons and    *)
(* newlines read as spaces, the words of the text are operands and         *)
(* operators, and an operand that directly follows an operand begins a     *)
(* new statement.                                                          *)
(***************************************************************************)
Spaced(text) ==
  [i \in DOMAIN text |-> IF text[i] \in {";", "\n"} THEN " " ELSE text[i]]

ProgramWords(text) == SelectSeq(Words(Spaced(text)), LAMBDA w : w # <<>>)

IsOperand(w) == w[1] \in AsciiDigit \cup Alphabetic

\* places of the words that begin a statement
StatementStarts(w) ==
  {i \in DOMAIN w : i = 1 \/ (IsOperand(w[i]) /\ IsOperand(w[i - 1]))}

\* the words of the statement that begins at place i
StatementWords(w, i) ==
  LET later == {j \in StatementStarts(w) : j > i}
      end == IF later = {} THEN Len(w)
             ELSE (CHOOSE j \in later : \A k \in later : j <= k) - 1
  IN SubSeq(w, i, end)

ExpectedStatements(text) ==
  LET w == ProgramWords(text)
      starts == StatementStarts(w)
  IN [n \in 1..Cardinality(starts) |->
        LET i == CHOOSE i \in starts : Cardinality({j \in starts : j < i}) = n - 1
            sw == StatementWords(w, i)
        IN ExpressionStatement(AssignmentTree(sw, 1, Len(sw)))]

(***************************************************************************)
(* C17: a parse that succeeds returns one Program whose statements are the *)
(* ExpressionStatements of the statements of the text, one each, in the    *)
(* order of the text, none for an empty or blank text; a semicolon after a *)
(* statement is consumed and its absence is no error, so the text with     *)
(* every semicolon replaced by a space gives the same Program.             *)
(***************************************************************************)
C17_ProgramOfStatements ==
  parse_result # NoResult =>
    /\ parse_result = Ok(Program(ExpectedStatements(input)))
    /\ parse_result = parse(Parser_new(Spaced(input))).res

\* x = 10 y = 20, with no semicolon, has been parsed to two statements
C17_Witness ==
  /\ input = <<"x", " ", "=", " ", "1", "0", " ", "y", " ", "=", " ", "2", "0">>
  /\ parse_result # NoResult
  /\ parse_result.ok
  /\ Len(parse_result.val.statements) = 2
  /\ parse_result =
       parse(Parser_new(<<"x", " ", "=", " ", "1", "0", ";", " ",
                          "y", " ", "=", " ", "2", "0", ";">>)).res

(***************************************************************************)
(* A call text read from the text alone: the name stands before the first  *)
(* "(", the arguments between it and the last ")", separated by ", ".      *)
(***************************************************************************)
FirstPlace(text, c) ==
  CHOOSE i \in DOMAIN text : text[i] = c /\ \A j \in 1..(i - 1) : text[j] # c

\* the pieces of text between the occurrences of c
RECURSIVE Split(_, _)
Split(text, c) ==
  IF text = <<>> THEN <<>>
  ELSE IF \E i \in DOMAIN text : text[i] = c
  THEN <<SubSeq(text, 1, FirstPlace(text, c) - 1)>>
         \o Split(SubSeq(text, FirstPlace(text, c) + 1, Len(text)), c)
  ELSE <<text>>

\* text without the spaces in front of it
RECURSIVE Trimmed(_)
Trimmed(text) ==
  IF text # <<>> /\ text[1] = " " THEN Trimmed(Tail(text)) ELSE text

IsCallText(text) == \E i \in DOMAIN text : text[i] = "("

CallName(text) == SubSeq(text, 1, FirstPlace(text, "(") - 1)

CallArguments(text) ==
  LET inner == SubSeq(text, FirstPlace(text, "(") + 1, Len(text) - 1)
      pieces == Split(inner, ",")
  IN [i \in DOMAIN pieces |-> Trimmed(pieces[i])]

\* the tree of an argument: a call of one argument or a plain expression
ExpectedArgument(text) ==
  IF IsCallText(text)
  THEN FunctionCall(CallName(text),
                    <<OperandNode(SubSeq(text, FirstPlace(text, "(") + 1,
                                         Len(text) - 1))>>)
  ELSE AssignmentTree(Words(text), 1, Len(Words(text)))

(***************************************************************************)
(* C18: a name directly followed by "(" parses to a FunctionCall of that   *)
(* name whose arguments are the argument expressions, each a full          *)
(* expression, in the order of the text, none for "()"; a name followed by *)
(* anything else parses to a bare Identifier.  So func(x, y + 1) is        *)
(* FunctionCall func of Identifier x and BinaryOp + of Identifier y and    *)
(* Number 1.                                                               *)
(***************************************************************************)
C18_FunctionCall ==
  parse_result # NoResult =>
    IF IsCallText(input)
    THEN parse_result =
           OneStatement(
             FunctionCall(CallName(input),
                          [i \in DOMAIN CallArguments(input) |->
                             ExpectedArgument(CallArguments(input)[i])]))
    ELSE /\ parse_result =
              OneStatement(AssignmentTree(Words(input), 1, Len(Words(input))))
         /\ \/ parse_result.val.statements[1].expression = Identifier(Words(input)[1])
            \/ parse_result.val.statements[1].expression.left = Identifier(Words(input)[1])

\* func(x, y + 1) has been parsed to the call of the two arguments
C18_Witness ==
  /\ input = <<"f", "u", "n", "c", "(", "x", ",", " ", "y", " ", "+", " ", "1", ")">>
  /\ parse_result =
       OneStatement(
         FunctionCall(<<"f", "u", "n", "c">>,
                      <<Identifier(<<"x">>),
                        BinaryOp(Identifier(<<"y">>), <<"+">>, Number(<<"1">>, FALSE))>>))

(***************************************************************************)
(* C19: when the closing ")" is missing, in a grouping as in a call, parse *)
(* fails with UnexpectedToken whose expected text is "closing parenthesis" *)
(* and whose found token is the token standing there: EOF when the text    *)
(* ends, the operand b when b follows the expression of a grouping.        *)
(***************************************************************************)
C19_MissingClosingParenthesis ==
  (parse_result # NoResult /\ input \in UnclosedGroupings \cup UnclosedCalls) =>
    parse_result =
      Err(UnexpectedToken("closing parenthesis",
                          IF input[Len(input)] = "b" /\ input[1] = "("
                          THEN Identificador(<<"b">>)
                          ELSE EOF))

(***************************************************************************)
(* C20: when the parser needs a token that begins an expression and the    *)
(* tokens are exhausted there (1 +, a =, -, ( and the like), parse fails   *)
(* with UnexpectedEOF.                                                     *)
(***************************************************************************)
C20_ExhaustedStreamIsUnexpectedEOF ==
  (parse_result # NoResult /\ input \in TruncatedInputs) =>
    parse_result = Err(UnexpectedEOF)

FirstStop(rs) ==
  IF \E i \in DOMAIN rs : rs[i] = Ok(EOF) \/ ~rs[i].ok
  THEN CHOOSE i \in DOMAIN rs :
         /\ rs[i] = Ok(EOF) \/ ~rs[i].ok
         /\ \A j \in 1..(i - 1) : rs[j] # Ok(EOF) /\ rs[j].ok
  ELSE 0

TokensBefore(rs, k) == [i \in 1..(k - 1) |-> rs[i].val]

ExpectedAllTokens(rs) ==
  IF rs[FirstStop(rs)].ok
  THEN Ok(TokensBefore(rs, FirstStop(rs)))
  ELSE rs[FirstStop(rs)]

C22_Bounded ==
  /\ Len(results) >= Len(input) + 1 =>
       FirstStop(results) \in 1..(Len(input) + 1)
  /\ (all_tokens # NoResult /\ FirstStop(results) > 0) =>
       all_tokens = ExpectedAllTokens(results)
  /\ (all_tokens # NoResult /\ input = BalancedSymbols) =>
       all_tokens.ok /\ Len(all_tokens.val) = 6

C22_Consumes ==
  (Len(results') = Len(results) + 1 /\ results'[Len(results')] # Ok(EOF))
    => Len(lexer'.chars) < Len(lexer.chars)

C22_ScanningTerminates == []C22_Bounded /\ [][C22_Consumes]_vars

\* tokenize_all has returned the 6 tokens of the balanced text and the
\* scanner called step by step has reached EOF at its 7th call
C22_Witness ==
  /\ input = BalancedSymbols
  /\ all_tokens # NoResult
  /\ all_tokens.ok
  /\ Len(all_tokens.val) = 6
  /\ FirstStop(results) = 7
  /\ results[7] = Ok(EOF)

(***************************************************************************)
(* C24: when the scan of a text fails at some token, the handler tokenize  *)
(* answers with exactly the tokens returned before the failure, unchanged  *)
(* and in order, with success = false and the error; it reports no token   *)
(* from after the failing position.                                        *)
(***************************************************************************)
\* what the handler reports of the i-th token of the text
ReportedToken(rs, i) ==
  TokenInfo(split_first(token_debug(rs[i].val)), token_debug(rs[i].val), i - 1)

C24_PartialTokensKept ==
  (/\ tokenize_response # NoResult
   /\ FirstStop(results) > 0
   /\ ~results[FirstStop(results)].ok)
  => /\ tokenize_response.success = FALSE
     /\ tokenize_response.error =
          Some(lexer_error_debug(results[FirstStop(results)].err))
     /\ Len(tokenize_response.tokens) = FirstStop(results) - 1
     /\ \A i \in 1..(FirstStop(results) - 1) :
          tokenize_response.tokens[i] = ReportedToken(results, i)

\* the handler has answered a text whose third token fails, and the scanner
\* called step by step has gone on past the failure
C24_Witness ==
  /\ tokenize_response # NoResult
  /\ ~tokenize_response.success
  /\ Len(tokenize_response.tokens) = 2
  /\ FirstStop(results) = 3
  /\ Len(results) > 3

(***************************************************************************)
(* C23: parse ends on every text, with Ok(Program) or with an error.  The  *)
(* statement loop and the argument loop take at least one token per        *)
(* iteration: the statements and arguments of the tree are no more than    *)
(* the tokens taken; the parser asks the scanner for at most (number of    *)
(* characters + 1) tokens and for nothing after EOF.  Two runs on the same *)
(* text, one by the handler, end the same way.                             *)
(***************************************************************************)
RECURSIVE Iterations(_), IterationsOf(_, _)
\* iterations of the statement loop and of the argument loops that built a tree
Iterations(node) ==
  CASE node.type = "Program" ->
         Len(node.statements) + IterationsOf(node.statements, 1)
    [] node.type = "ExpressionStatement" -> Iterations(node.expression)
    [] node.type = "Parenthesized" -> Iterations(node.expression)
    [] node.type = "FunctionCall" ->
         Len(node.arguments) + IterationsOf(node.arguments, 1)
    [] node.type = "BinaryOp" -> Iterations(node.left) + Iterations(node.right)
    [] node.type = "Assignment" -> Iterations(node.left) + Iterations(node.right)
    [] node.type = "UnaryOp" -> Iterations(node.operand)
    [] OTHER -> 0

IterationsOf(nodes, i) ==
  IF i > Len(nodes)
  THEN 0
  ELSE Iterations(nodes[i]) + IterationsOf(nodes, i + 1)

TokensTaken(P) ==
  Cardinality({i \in DOMAIN P.requested :
                 P.requested[i].ok /\ P.requested[i].val # EOF})

ExpectedParseResponse(r) ==
  IF r.ok
  THEN ParseResponse(Some(r.val), TRUE, Absent)
  ELSE ParseResponse(Absent, FALSE, Some(parse_error_debug(r.err)))

C23_ParseTerminates ==
  /\ parse_result # NoResult =>
       /\ parse_result.ok =>
            /\ parse_result.val.type = "Program"
            /\ Iterations(parse_result.val) <= TokensTaken(parser)
       /\ ~parse_result.ok =>
            parse_result.err.type \in
              {"LexerError", "UnexpectedToken", "UnexpectedEOF"}
       /\ Len(parser.requested) <= Len(input) + 1
       /\ \A i \in 1..(Len(parser.requested) - 1) :
            parser.requested[i] # Ok(EOF)
  /\ (parse_result # NoResult /\ parse_response # NoResult) =>
       parse_response = ExpectedParseResponse(parse_result)

\* both runs have ended on a text of two statements, the second a call with
\* two arguments
C23_Witness ==
  /\ parse_result # NoResult
  /\ parse_response # NoResult
  /\ parse_result.ok
  /\ Len(parse_result.val.statements) = 2
  /\ parse_result.val.statements[2].expression.type = "FunctionCall"
  /\ Len(parse_result.val.statements[2].expression.arguments) = 2

(***************************************************************************)
(* C25: every node of a tree returned by a successful parse is of one of   *)
(* the kinds the AST model declares (Program, ExpressionStatement,         *)
(* Assignment, BinaryOp, UnaryOp, FunctionCall, Parenthesized, Number,     *)
(* String, Identifier), also for texts with the literals true and false.   *)
(***************************************************************************)
\* the variants of the enum ASTNode
DeclaredNodeKinds ==
  {"Number", "String", "Identifier", "BinaryOp", "UnaryOp", "Assignment",
   "FunctionCall", "Parenthesized", "Program", "ExpressionStatement"}

RECURSIVE NodeKinds(_)
NodeKinds(node) ==
  {node.type} \cup
    (CASE node.type = "Program" ->
            UNION {NodeKinds(node.statements[i]) : i \in DOMAIN node.statements}
       [] node.type = "ExpressionStatement" -> NodeKinds(node.expression)
       [] node.type = "Parenthesized" -> NodeKinds(node.expression)
       [] node.type = "FunctionCall" ->
            UNION {NodeKinds(node.arguments[i]) : i \in DOMAIN node.arguments}
       [] node.type = "BinaryOp" -> NodeKinds(node.left) \cup NodeKinds(node.right)
       [] node.type = "Assignment" -> NodeKinds(node.left) \cup NodeKinds(node.right)
       [] node.type = "UnaryOp" -> NodeKinds(node.operand)
       [] OTHER -> {})

C25_ClosedNodeKinds ==
  (parse_result # NoResult /\ parse_result.ok) =>
    NodeKinds(parse_result.val) \subseteq DeclaredNodeKinds

\* texts without a boolean literal give trees of declared kinds only
C25_DeclaredKindsWithoutBooleans ==
  (/\ parse_result # NoResult
   /\ parse_result.ok
   /\ \A i \in DOMAIN parser.requested :
        parser.requested[i].ok => parser.requested[i].val.type # "Boolean")
  => NodeKinds(parse_result.val) \subseteq DeclaredNodeKinds

(***************************************************************************)
(* C26: the scanner does not detect brackets closed in the wrong order     *)
(* across families: a bracket text in which no family is closed more often *)
(* than it has been opened is scanned without error however the families   *)
(* interleave, one punctuation token per bracket and then EOF; ([)] gives  *)
(* four punctuation tokens and EOF.                                        *)
(***************************************************************************)
\* position i holds a closer and the last opener still unmatched before it,
\* in the order of a stack, is of another family
RECURSIVE OpenStack(_)
OpenStack(text) ==
  IF text = <<>> THEN <<>>
  ELSE Bind(OpenStack(Prefix(text, Len(text) - 1)), LAMBDA st :
         CASE text[Len(text)] \in Openers -> Append(st, text[Len(text)])
           [] text[Len(text)] \in Closers /\ st # <<>> -> Prefix(st, Len(st) - 1)
           [] OTHER -> st)

Crossing(text, i) ==
  /\ text[i] \in Closers
  /\ OpenStack(Prefix(text, i - 1)) # <<>>
  /\ OpenStack(Prefix(text, i - 1))[Len(OpenStack(Prefix(text, i - 1)))]
       # OpenerOf(text[i])

CrossFamilyInput == <<"(", "[", ")", "]">>

C26_CrossFamilyOrderNotDetected ==
  FirstBadCloser(input) = 0 =>
    /\ \A i \in DOMAIN results :
         /\ results[i].ok
         /\ i <= Len(input) =>
              /\ results[i].val.type = "Punctuation"
              /\ results[i].val.raw = input[i]
              /\ results[i].val.kind =
                   IF input[i] \in Openers THEN "Open" ELSE "Close"
         /\ i > Len(input) => results[i] = Ok(EOF)
    /\ (input = CrossFamilyInput /\ Len(results) >= 5) =>
         /\ \A i \in 1..4 : results[i].val.type = "Punctuation"
         /\ results[5] = Ok(EOF)

\* ([)] has been scanned to EOF: its ")" closes across the open "["
C26_Witness ==
  /\ input = CrossFamilyInput
  /\ Crossing(input, 3)
  /\ FirstBadCloser(input) = 0
  /\ Len(results) = 5
  /\ IsCloseToken(results[3], ")")
  /\ IsCloseToken(results[4], "]")
  /\ results[5] = Ok(EOF)

(***************************************************************************)
(* C27: a text that ends while some family still has an unmatched opener,  *)
(* such as ((, makes the scanner return an error and not the EOF token.    *)
(***************************************************************************)
UnderClosed(text) ==
  /\ FirstBadCloser(text) = 0
  /\ \E o \in Openers : Unmatched(text, o) > 0

C27_UnderClosingDetected ==
  (UnderClosed(input) /\ Len(results) > Len(input)) =>
    ~results[Len(input) + 1].ok

\* what the scanner does: every bracket of such a text is returned as a token
\* and the call at the end of the text returns EOF, the counters left positive
C27_UnderClosingReachesEOF ==
  (UnderClosed(input) /\ Len(results) > Len(input)) =>
    /\ results[Len(input) + 1] = Ok(EOF)
    /\ \E o \in Openers : Counter(o) > 0

(***************************************************************************)
(* C28: in the argument list of a call a comma is taken only when it       *)
(* stands directly after an argument, and commas are not counted:          *)
(* f(a, b), f(a b) and f(a, b,) all parse to FunctionCall f of a and b; a  *)
(* comma where an argument must start, as in f(,a) and f(a,,b), fails with *)
(* UnexpectedToken expecting "expression".                                 *)
(***************************************************************************)
\* the arguments and commas between the parentheses, in order
NotSpace(c) == c # " "

ListItems(text) == SelectSeq(SubSeq(text, 3, Len(text) - 1), NotSpace)

\* a comma at the start of the list or directly after another comma
CommaAtArgumentStart(items) ==
  \E i \in DOMAIN items :
    items[i] = "," /\ (i = 1 \/ items[i - 1] = ",")

NotComma(c) == c # ","

ArgumentsOf(items) ==
  [i \in DOMAIN SelectSeq(items, NotComma) |->
     Identifier(<<SelectSeq(items, NotComma)[i]>>)]

CallOfAB ==
  OneStatement(FunctionCall(<<"f">>, <<Identifier(<<"a">>), Identifier(<<"b">>)>>))

C28_CommasInArguments ==
  parse_result # NoResult =>
    /\ parse_result =
         IF CommaAtArgumentStart(ListItems(input))
         THEN Err(UnexpectedToken("expression", Separator(",")))
         ELSE OneStatement(FunctionCall(<<"f">>, ArgumentsOf(ListItems(input))))
    /\ input \in {<<"f", "(", "a", ",", " ", "b", ")">>,
                  <<"f", "(", "a", " ", "b", ")">>,
                  <<"f", "(", "a", ",", " ", "b", ",", ")">>}
         => parse_result = CallOfAB
    /\ input \in {<<"f", "(", ",", "a", ")">>,
                  <<"f", "(", "a", ",", ",", "b", ")">>}
         => /\ ~parse_result.ok
            /\ parse_result.err.type = "UnexpectedToken"
            /\ parse_result.err.expected = "expression"

\* f(a, b,) with its comma after the last argument has been parsed to the
\* call of a and b
C28_Witness ==
  /\ input = <<"f", "(", "a", ",", " ", "b", ",", ")">>
  /\ parse_result = CallOfAB

(***************************************************************************)
(* C29: prefix operators nest and bind tighter than any binary operator: a *)
(* run of k >= 1 characters among - and ! directly before a primary (!x,   *)
(* !!x, -!x, --x) parses to k nested UnaryOp nodes, in the order of the    *)
(* text, around the primary; the scanner joins two characters into one     *)
(* operator only for ==, !=, <=, >=, &&, ||, ++ and --, and otherwise      *)
(* returns the first character alone and leaves the second to be scanned.  *)
(***************************************************************************)
RECURSIVE Nested(_, _)
Nested(run, node) ==
  IF run = <<>> THEN node ELSE UnaryOp(<<Head(run)>>, Nested(Tail(run), node))

PrimaryNode(p) ==
  IF p[1] = "(" THEN Parenthesized(Identifier(<<"x">>)) ELSE OperandNode(p)

ExpectedUnary(r, p, t) ==
  OneStatement(IF t = <<>>
               THEN Nested(r, PrimaryNode(p))
               ELSE BinaryOp(Nested(r, PrimaryNode(p)), <<"*">>, Identifier(<<"b">>)))

DoubleMinus(run) ==
  \E i \in 1..(Len(run) - 1) : run[i] = "-" /\ run[i + 1] = "-"

C29_PairsOfOperatorCharacters ==
  input \in OperatorPairs =>
    /\ Len(results) >= 1 =>
         results[1] = Ok(Operator(IF input \in TwoCharOperators
                                  THEN input ELSE <<input[1]>>))
    /\ Len(results) >= 2 =>
         results[2] = IF input \in TwoCharOperators
                      THEN Ok(EOF) ELSE Ok(Operator(<<input[2]>>))

C29_UnaryRunsNest ==
  /\ C29_PairsOfOperatorCharacters
  /\ parse_result # NoResult =>
       \A r \in UnaryRuns, p \in UnaryPrimaries, t \in UnaryTails :
         input = r \o p \o t => parse_result = ExpectedUnary(r, p, t)

\* what the parser does: the runs without two adjacent "-" nest, the others
\* are refused at the operator -- the scanner made of them
C29_RunsWithoutDoubleMinusNest ==
  /\ C29_PairsOfOperatorCharacters
  /\ parse_result # NoResult =>
       \A r \in UnaryRuns, p \in UnaryPrimaries, t \in UnaryTails :
         input = r \o p \o t =>
           parse_result =
             IF DoubleMinus(r)
             THEN Err(UnexpectedToken("expression", Operator(<<"-", "-">>)))
             ELSE ExpectedUnary(r, p, t)

(***************************************************************************)
(* C30: a failed call of next_token leaves the scanner usable.  A call     *)
(* that fails with MissbalancedSymbols or UnknownSymbol changes no bracket *)
(* counter and has taken the offending character; the call after it scans  *)
(* on from the next character with the counters as they were and returns   *)
(* the token found there.                                                  *)
(***************************************************************************)
IsScanFailure(r) ==
  ~r.ok /\ r.err.type \in {"MissbalancedSymbols", "UnknownSymbol"}

\* the one character a failure is about; the unterminated-literal failures
\* of parse_string carry a message instead
OffendingCharacter(r) ==
  IF r.err.type = "MissbalancedSymbols" THEN <<r.err.symbol>>
  ELSE IF Len(r.err.what) = 1 THEN r.err.what
  ELSE <<>>

Called == Len(results') = Len(results) + 1

Returned1 == results'[Len(results')]

TakenByCall == Len(lexer.chars) - Len(lexer'.chars)

C30_FailedCall ==
  (Called /\ IsScanFailure(Returned1)) =>
    /\ lexer'.balancing_state = lexer.balancing_state
    /\ TakenByCall >= 1
    /\ lexer'.chars = SubSeq(lexer.chars, TakenByCall + 1, Len(lexer.chars))
    /\ OffendingCharacter(Returned1) # <<>> =>
         /\ lexer.chars[TakenByCall] = OffendingCharacter(Returned1)[1]
         /\ \A j \in 1..(TakenByCall - 1) : lexer.chars[j] \in Whitespace

C30_CallAfterFailure ==
  (Called /\ results # <<>> /\ IsScanFailure(results[Len(results)])) =>
    CASE lexer.chars = <<>> -> Returned1 = Ok(EOF)
      [] lexer.chars # <<>> /\ Head(lexer.chars) = "(" ->
           /\ IsOpenToken(Returned1, "(")
           /\ Returned1.val.depth = Counter("(")
      [] lexer.chars # <<>> /\ Head(lexer.chars) = ")" ->
           IF Counter("(") > 0
           THEN IsCloseToken(Returned1, ")")
           ELSE IsError(Returned1, "MissbalancedSymbols")
      [] lexer.chars # <<>> /\ Head(lexer.chars) = "a" ->
           Returned1.ok /\ Returned1.val.type = "Identificador"
      [] lexer.chars # <<>> /\ Head(lexer.chars) = "+" ->
           /\ Returned1.ok
           /\ Returned1.val.type = "Operator"
           /\ Returned1.val.op[1] = "+"
      [] lexer.chars # <<>> /\ Head(lexer.chars) = ";" ->
           Returned1 = Ok(Separator(";"))
      [] OTHER -> TRUE

C30_FailureDoesNotLatch == [][C30_FailedCall /\ C30_CallAfterFailure]_vars

\* after an opener a call failed on an unknown character and the call after
\* it returned the next opener with depth 1; the counter stands at 2
C30_Witness ==
  /\ Len(results) = 3
  /\ IsOpenToken(results[1], "(")
  /\ IsError(results[2], "UnknownSymbol")
  /\ IsOpenToken(results[3], "(")
  /\ results[3].val.depth = 1
  /\ Counter("(") = 2

====
